---- MODULE Spec2Model ----
(***************************************************************************)
(* Model of the storage layer of infinity-mcp-server                       *)
(* (src/src/infinity_mcp_server/storage.py and models.py).                 *)
(*                                                                         *)
(* Python values are modelled as strings; Python's None is the reserved    *)
(* string None, which is in no set of proper strings used below.  A file   *)
(* is a record [exists, ...]; the content of memories.json is the dict     *)
(* that json.load returns for it (json.dump/json.load of a dict of str,    *)
(* None and lists gives back the same dict).                               *)
(***************************************************************************)
EXTENDS Integers, Sequences, FiniteSets, TLC

VARIABLES
    fs,        \* the file system: for each working directory, its .infinity
    store,     \* the MemoryStorage instances: working_dir and project_id
    uuidCtr,   \* number of uuid.uuid4() calls made so far
    now,       \* the UTC clock read by get_iso_timestamp
    calls,     \* number of calls made so far
    activated, \* the instances on which an activate_project has returned
    deleted,   \* the ids whose delete_memory has returned
    updated,   \* the ids whose update_memory has returned
    first_id,  \* per directory, what its first activate_project returned
    created,   \* the ids store_memory has returned
    pending,   \* per instance, the dict a call has read and changed and has
               \* yet to write, when calls of two processes interleave
    cwd,       \* the working directory of the process of the tools
    last       \* the last call: its arguments, its outcome, its file accesses

vars == <<fs, store, uuidCtr, now, calls, activated, deleted, updated, first_id,
          created, pending, cwd, last>>

----------------------------------------------------------------------------
(* Bounds of the model *)

\* the runs explored make at most MaxCalls calls
MaxCalls == 4

----------------------------------------------------------------------------
(* Values *)

None == "<None>"
OK == "ok"

Dirs == {"A", "B"}
Stores == {"s1", "s2"}

\* an id computed once and used for every Memory
UuidOnce(n) == "uuid-1"

\* uuid.uuid4(): the n-th call returns a value no earlier call returned
Uuid(n) == "uuid-" \o ToString(n)

\* models.py get_iso_timestamp: the clock value n formatted, 'Z' suffix
get_iso_timestamp(n) == "T00:00:0" \o ToString(n) \o "Z"

ALLOWED_MEMORY_TYPES ==
    { "design_doc", "project_overview", "implementation_plan",
      "progress_tracker", "test_plan", "instructions", "guidelines",
      "analysis" }

\* the error_code of each exception class of models.py
InvalidMemoryTypeError == "invalid_memory_type"
MissingRequiredFieldError == "missing_required_field"
MemoryNotFoundError == "memory_not_found"
ProjectNotActivatedError == "project_not_activated"
StorageError == "storage_error"

----------------------------------------------------------------------------
(* Inputs the callers draw from *)

Titles == {None, "", "T1"}
Types == {"design_doc", "guidelines", "rules"}
Filters == Types \cup {None}
Contents == {None, "", "c1"}
\* the ids a caller can know: those generated so far, and one never generated
MemoryIds == {Uuid(n) : n \in 1..uuidCtr} \cup {"invalid-uuid"}

\* where a call's file access fails with an OSError, "none" when none does
ActivateFaults == {"mkdir", "read_id", "open_id", "write_id"}
ReadFaults == {"read"}
WriteFaults == {"open_tmp", "write_tmp", "replace"}
Faults == ActivateFaults \cup ReadFaults \cup WriteFaults

----------------------------------------------------------------------------
(* models.py *)

\* Memory dataclass with updated_at defaulting to None
Memory(id, title, type, content, created_at) ==
    [id |-> id, title |-> title, type |-> type, content |-> content,
     created_at |-> created_at, updated_at |-> None]

\* to_dict with the values of title and content exchanged
to_dict_swapped(m) ==
    [id |-> m.id, title |-> m.content, type |-> m.type, content |-> m.title,
     created_at |-> m.created_at, updated_at |-> m.updated_at]

to_dict(m) ==
    [id |-> m.id, title |-> m.title, type |-> m.type, content |-> m.content,
     created_at |-> m.created_at, updated_at |-> m.updated_at]

from_dict(data) ==
    [id |-> data.id, title |-> data.title, type |-> data.type,
     content |-> data.content, created_at |-> data.created_at,
     updated_at |-> data.updated_at]

MemoryMetadata(id, title, type) == [id |-> id, title |-> title, type |-> type]

\* validate_memory_type that also lets "rules" through
validate_memory_type_rules(memory_type) ==
    IF memory_type \notin ALLOWED_MEMORY_TYPES \cup {"rules"}
    THEN InvalidMemoryTypeError ELSE OK

\* the error raised by validate_memory_type, OK when it returns
validate_memory_type(memory_type) ==
    IF memory_type \notin ALLOWED_MEMORY_TYPES
    THEN InvalidMemoryTypeError ELSE OK

\* validate_required_field without the test for the empty string
validate_required_field_none_only(value) ==
    IF value = None THEN MissingRequiredFieldError ELSE OK

\* the error raised by validate_required_field, OK when it returns
validate_required_field(value) ==
    IF value = None \/ value = "" THEN MissingRequiredFieldError ELSE OK

----------------------------------------------------------------------------
(* The file system under <working_dir>/.infinity *)

NoMemory == [id |-> None, title |-> None, type |-> None, content |-> None,
             created_at |-> None, updated_at |-> None]
NoData == [project_id |-> None, memories |-> << >>]
NoTextFile == [exists |-> FALSE, text |-> None]
\* a JSON file: complete is FALSE when only a part of the text was written
NoJsonFile == [exists |-> FALSE, complete |-> FALSE, data |-> NoData]
JsonFile(data, complete) == [exists |-> TRUE, complete |-> complete, data |-> data]

EmptyDir ==
    [infinity_dir |-> FALSE,
     project_id_file |-> NoTextFile,
     memories_file |-> NoJsonFile,
     tmp_file |-> NoJsonFile]

\* MemoryStorage.__init__ ignoring its working_dir argument
NewStorageOneDir(working_dir) == [working_dir |-> "A", project_id |-> None]

\* MemoryStorage.__init__
NewStorage(working_dir) == [working_dir |-> working_dir, project_id |-> None]

\* _ensure_activated: the error it raises, OK when it returns
EnsureActivated(self, d) ==
    IF self.project_id = None THEN ProjectNotActivatedError ELSE OK

\* _read_memories_file returning the default dict without reading the file
ReadMemoriesFileDefault(self, d, fault) ==
    [err |-> OK,
     data |-> [project_id |-> self.project_id, memories |-> << >>],
     io |-> <<"exists:memories.json">>, faulted |-> FALSE]

\* _read_memories_file: [err, data, io, faulted]
ReadMemoriesFile(self, d, fault) ==
    IF ~d.memories_file.exists
    THEN [err |-> OK,
          data |-> [project_id |-> self.project_id, memories |-> << >>],
          io |-> <<"exists:memories.json">>, faulted |-> FALSE]
    ELSE IF fault = "read"
    THEN [err |-> StorageError, data |-> NoData,
          io |-> <<"exists:memories.json", "open:memories.json">>,
          faulted |-> TRUE]
    ELSE IF ~d.memories_file.complete
    THEN [err |-> StorageError, data |-> NoData,
          io |-> <<"exists:memories.json", "read:memories.json">>,
          faulted |-> FALSE]
    ELSE [err |-> OK, data |-> d.memories_file.data,
          io |-> <<"exists:memories.json", "read:memories.json">>,
          faulted |-> FALSE]

\* _write_memories_file keeping the memories another writer has put into
\* memories.json since the caller read it
WriteMemoriesFileMerge(d, data, fault) ==
    LET mine == {data.memories[i].id : i \in 1..Len(data.memories)}
        kept == SelectSeq(d.memories_file.data.memories,
                          LAMBDA m : m.id \notin mine)
    IN  [err |-> OK,
         dir |-> [d EXCEPT !.memories_file =
                     JsonFile([data EXCEPT !.memories = kept \o @], TRUE)],
         io |-> <<"open:memories.tmp", "write:memories.tmp",
                  "replace:memories.json">>,
         faulted |-> FALSE]

\* _write_memories_file doing json.dump to memories.json itself
WriteMemoriesFileInPlace(d, data, fault) ==
    IF fault = "open_tmp" \/ ~d.infinity_dir
    THEN [err |-> StorageError, dir |-> d, io |-> <<"open:memories.json">>,
          faulted |-> fault = "open_tmp"]
    ELSE IF fault = "write_tmp"
    THEN [err |-> StorageError,
          dir |-> [d EXCEPT !.memories_file = JsonFile(data, FALSE)],
          io |-> <<"open:memories.json", "write:memories.json">>,
          faulted |-> TRUE]
    ELSE [err |-> OK,
          dir |-> [d EXCEPT !.memories_file = JsonFile(data, TRUE)],
          io |-> <<"open:memories.json", "write:memories.json">>,
          faulted |-> FALSE]

\* _write_memories_file without "temp_path.replace(self.memories_path)"
WriteMemoriesFileNoReplace(d, data, fault) ==
    IF fault = "open_tmp" \/ ~d.infinity_dir
    THEN [err |-> StorageError, dir |-> d, io |-> <<"open:memories.tmp">>,
          faulted |-> fault = "open_tmp"]
    ELSE IF fault = "write_tmp"
    THEN [err |-> StorageError,
          dir |-> [d EXCEPT !.tmp_file = JsonFile(data, FALSE)],
          io |-> <<"open:memories.tmp", "write:memories.tmp">>,
          faulted |-> TRUE]
    ELSE [err |-> OK,
          dir |-> [d EXCEPT !.tmp_file = JsonFile(data, TRUE)],
          io |-> <<"open:memories.tmp", "write:memories.tmp">>,
          faulted |-> FALSE]

\* a content that json.dump cannot serialize (bytes, a set, an object)
Unserializable == "<object>"

\* the TypeError json.dump raises for it, which is no OSError
RawTypeError == "TypeError"

Serializable(data) ==
    \A i \in 1..Len(data.memories) : data.memories[i].content # Unserializable

\* _write_memories_file: [err, dir, io, faulted]; json.dump to memories.tmp,
\* then memories.tmp replaces memories.json; "except (OSError, IOError)"
\* lets the TypeError of json.dump through, after a part of the text is
\* written
WriteMemoriesFile(d, data, fault) ==
    IF fault = "open_tmp" \/ ~d.infinity_dir
    THEN [err |-> StorageError, dir |-> d, io |-> <<"open:memories.tmp">>,
          faulted |-> fault = "open_tmp"]
    ELSE IF ~Serializable(data)
    THEN [err |-> RawTypeError,
          dir |-> [d EXCEPT !.tmp_file = JsonFile(data, FALSE)],
          io |-> <<"open:memories.tmp", "write:memories.tmp">>,
          faulted |-> FALSE]
    ELSE IF fault = "write_tmp"
    THEN [err |-> StorageError,
          dir |-> [d EXCEPT !.tmp_file = JsonFile(data, FALSE)],
          io |-> <<"open:memories.tmp", "write:memories.tmp">>,
          faulted |-> TRUE]
    ELSE IF fault = "replace"
    THEN [err |-> StorageError,
          dir |-> [d EXCEPT !.tmp_file = JsonFile(data, TRUE)],
          io |-> <<"open:memories.tmp", "write:memories.tmp",
                   "replace:memories.json">>,
          faulted |-> TRUE]
    ELSE [err |-> OK,
          dir |-> [d EXCEPT !.memories_file = JsonFile(data, TRUE),
                            !.tmp_file = NoJsonFile],
          io |-> <<"open:memories.tmp", "write:memories.tmp",
                   "replace:memories.json">>,
          faulted |-> FALSE]

----------------------------------------------------------------------------
(* storage.py: the operations of MemoryStorage.  Each operator computes    *)
(* the outcome of one call from the instance, the state d of its           *)
(* .infinity directory, the call's arguments and the place where a file    *)
(* access fails: the error code raised (OK when the call returns), the     *)
(* returned value, the instance and the directory afterwards, the file     *)
(* accesses made, the number of uuid4() calls, whether the clock was read  *)
(* and whether the failing file access was reached.                        *)

Outcome(err, self, d, io) ==
    [err |-> err, ret_id |-> None, ret_memory |-> NoMemory, ret_list |-> << >>,
     self |-> self, dir |-> d, io |-> io, uuids |-> 0, clock |-> FALSE,
     faulted |-> FALSE]

\* str.strip() of the identity file's text
strip(text) == IF text \in {" ", "\n", " \n"} THEN "" ELSE text

\* activate_project never finding the identity file
IdentityFileExistsNever(d) == FALSE

\* activate_project, "if self.project_id_path.exists()"
IdentityFileExists(d) == d.project_id_file.exists

\* activate_project never finding memories.json
MemoriesFileExistsNever(d) == FALSE

\* activate_project, "if not self.memories_path.exists()"
MemoriesFileExists(d) == d.memories_file.exists

\* activate_project
ActivateProject(self, d, uuid, fault) ==
    LET io0 == <<"exists:.infinity">>
        d1 == IF ~d.infinity_dir THEN [d EXCEPT !.infinity_dir = TRUE] ELSE d
        io1 == IF ~d.infinity_dir THEN io0 \o <<"mkdir:.infinity">> ELSE io0
        had == IdentityFileExists(d1)
        pid == IF had THEN strip(d1.project_id_file.text) ELSE uuid
        \* self.project_id is assigned before project_id is written
        self2 == [self EXCEPT !.project_id = pid]
        d2 == IF had THEN d1
              ELSE [d1 EXCEPT !.project_id_file = [exists |-> TRUE, text |-> pid]]
        io2 == io1 \o (IF had THEN <<"exists:project_id", "read:project_id">>
                       ELSE <<"exists:project_id", "write:project_id">>)
        wr == IF ~MemoriesFileExists(d2)
              THEN WriteMemoriesFile(d2, [project_id |-> pid, memories |-> << >>],
                                     fault)
              ELSE [err |-> OK, dir |-> d2, io |-> << >>, faulted |-> FALSE]
        io3 == io2 \o <<"exists:memories.json">> \o wr.io
    IN  IF fault = "mkdir" /\ ~d.infinity_dir
        THEN [Outcome(StorageError, self, d, io0 \o <<"mkdir:.infinity">>)
                 EXCEPT !.faulted = TRUE]
        ELSE IF fault = "read_id" /\ had
        THEN [Outcome(StorageError, self, d1,
                      io1 \o <<"exists:project_id", "open:project_id">>)
                 EXCEPT !.faulted = TRUE]
        ELSE IF fault = "open_id" /\ ~had
        THEN [Outcome(StorageError, self2, d1,
                      io1 \o <<"exists:project_id", "open:project_id">>)
                 EXCEPT !.faulted = TRUE, !.uuids = 1]
        ELSE IF fault = "write_id" /\ ~had
        THEN [Outcome(StorageError, self2,
                      [d1 EXCEPT !.project_id_file = [exists |-> TRUE, text |-> ""]],
                      io2)
                 EXCEPT !.faulted = TRUE, !.uuids = 1]
        ELSE [Outcome(wr.err, self2, wr.dir, io3) EXCEPT
                 !.ret_id = IF wr.err = OK THEN pid ELSE None,
                 !.uuids = IF had THEN 0 ELSE 1,
                 !.faulted = wr.faulted]

\* the content validated like the title, the empty string rejected
ContentCheckAlways(content) == validate_required_field(content)

\* store_memory, "Content can be empty but not None": the error raised
ContentCheck(content) ==
    IF content = None THEN validate_required_field(content) ELSE OK

\* store_memory putting the new dict in front of the list
PrependMemory(memories, memory) == <<to_dict(memory)>> \o memories

\* store_memory, data["memories"].append(memory.to_dict())
AppendMemory(memories, memory) == Append(memories, to_dict(memory))

\* store_memory replacing the content of a memory that has the same title
\* and type instead of appending a new one
StoreMemoryOpUpsert(self, d, title, memory_type, content, uuid, ts, fault) ==
    LET e0 == EnsureActivated(self, d)
        e1 == validate_required_field(title)
        e2 == validate_memory_type(memory_type)
        e3 == ContentCheck(content)
        memory == Memory(uuid, title, memory_type, content, ts)
        rd == ReadMemoriesFile(self, d, fault)
        same == {i \in 1..Len(rd.data.memories) :
                    /\ rd.data.memories[i].title = title
                    /\ rd.data.memories[i].type = memory_type}
        k == CHOOSE i \in same : TRUE
        data == IF same = {}
                THEN [rd.data EXCEPT !.memories = Append(@, to_dict(memory))]
                ELSE [rd.data EXCEPT !.memories[k].content = content]
        wr == WriteMemoriesFile(d, data, fault)
    IN  IF e0 # OK THEN Outcome(e0, self, d, << >>)
        ELSE IF e1 # OK THEN Outcome(e1, self, d, << >>)
        ELSE IF e2 # OK THEN Outcome(e2, self, d, << >>)
        ELSE IF e3 # OK THEN Outcome(e3, self, d, << >>)
        ELSE IF rd.err # OK
             THEN [Outcome(rd.err, self, d, rd.io) EXCEPT
                      !.uuids = 1, !.clock = TRUE, !.faulted = rd.faulted]
        ELSE [Outcome(wr.err, self, wr.dir, rd.io \o wr.io) EXCEPT
                 !.ret_id = IF wr.err # OK THEN None
                            ELSE IF same = {} THEN uuid
                            ELSE rd.data.memories[k].id,
                 !.uuids = 1, !.clock = TRUE, !.faulted = wr.faulted]

\* store_memory
StoreMemoryOp(self, d, title, memory_type, content, uuid, ts, fault) ==
    LET e0 == EnsureActivated(self, d)
        e1 == validate_required_field(title)
        e2 == validate_memory_type(memory_type)
        e3 == ContentCheck(content)
        memory == Memory(uuid, title, memory_type, content, ts)
        rd == ReadMemoriesFile(self, d, fault)
        data == [rd.data EXCEPT !.memories = AppendMemory(@, memory)]
        wr == WriteMemoriesFile(d, data, fault)
    IN  IF e0 # OK THEN Outcome(e0, self, d, << >>)
        ELSE IF e1 # OK THEN Outcome(e1, self, d, << >>)
        ELSE IF e2 # OK THEN Outcome(e2, self, d, << >>)
        ELSE IF e3 # OK THEN Outcome(e3, self, d, << >>)
        ELSE IF rd.err # OK
             THEN [Outcome(rd.err, self, d, rd.io) EXCEPT
                      !.uuids = 1, !.clock = TRUE, !.faulted = rd.faulted]
        ELSE [Outcome(wr.err, self, wr.dir, rd.io \o wr.io) EXCEPT
                 !.ret_id = IF wr.err = OK THEN uuid ELSE None,
                 !.uuids = 1, !.clock = TRUE, !.faulted = wr.faulted]

\* the search for memory_id leaving out the last dict of memories
FirstIndexButLast(memories, memory_id) ==
    IF \E i \in 1..(Len(memories) - 1) : memories[i].id = memory_id
    THEN CHOOSE i \in 1..(Len(memories) - 1) :
            /\ memories[i].id = memory_id
            /\ \A j \in 1..(i - 1) : memories[j].id # memory_id
    ELSE 0

\* index of the first dict of memories whose id is memory_id, 0 if none
FirstIndex(memories, memory_id) ==
    IF \E i \in 1..Len(memories) : memories[i].id = memory_id
    THEN CHOOSE i \in 1..Len(memories) :
            /\ memories[i].id = memory_id
            /\ \A j \in 1..(i - 1) : memories[j].id # memory_id
    ELSE 0

\* get_memory
GetMemoryOp(self, d, memory_id, fault) ==
    LET e0 == EnsureActivated(self, d)
        rd == ReadMemoriesFile(self, d, fault)
        i == FirstIndex(rd.data.memories, memory_id)
    IN  IF e0 # OK THEN Outcome(e0, self, d, << >>)
        ELSE IF rd.err # OK
             THEN [Outcome(rd.err, self, d, rd.io) EXCEPT !.faulted = rd.faulted]
        ELSE IF i = 0 THEN Outcome(MemoryNotFoundError, self, d, rd.io)
        ELSE [Outcome(OK, self, d, rd.io) EXCEPT
                 !.ret_memory = from_dict(rd.data.memories[i])]

\* the loop of list_memories inserting at the front instead of appending
RECURSIVE ListLoopReversed(_, _)
ListLoopReversed(memories, memory_type) ==
    IF memories = << >> THEN << >>
    ELSE LET mem_dict == Head(memories)
             rest == ListLoopReversed(Tail(memories), memory_type)
         IN  IF memory_type # None /\ mem_dict.type # memory_type
             THEN rest
             ELSE rest \o
                  <<[id |-> mem_dict.id, title |-> mem_dict.title,
                     type |-> mem_dict.type]>>

\* the loop of list_memories over data["memories"]
RECURSIVE ListLoop(_, _)
ListLoop(memories, memory_type) ==
    IF memories = << >> THEN << >>
    ELSE LET mem_dict == Head(memories)
             rest == ListLoop(Tail(memories), memory_type)
         IN  IF memory_type # None /\ mem_dict.type # memory_type
             THEN rest
             ELSE <<MemoryMetadata(mem_dict.id, mem_dict.title, mem_dict.type)>>
                  \o rest

\* list_memories validating its filter like store_memory its type
ListMemoriesOpValidating(self, d, memory_type, fault) ==
    LET e0 == EnsureActivated(self, d)
        e1 == IF memory_type = None THEN OK
              ELSE validate_memory_type(memory_type)
        rd == ReadMemoriesFile(self, d, fault)
    IN  IF e0 # OK THEN Outcome(e0, self, d, << >>)
        ELSE IF e1 # OK THEN Outcome(e1, self, d, << >>)
        ELSE IF rd.err # OK
             THEN [Outcome(rd.err, self, d, rd.io) EXCEPT !.faulted = rd.faulted]
        ELSE [Outcome(OK, self, d, rd.io) EXCEPT
                 !.ret_list = ListLoop(rd.data.memories, memory_type)]

\* list_memories
ListMemoriesOp(self, d, memory_type, fault) ==
    LET e0 == EnsureActivated(self, d)
        rd == ReadMemoriesFile(self, d, fault)
    IN  IF e0 # OK THEN Outcome(e0, self, d, << >>)
        ELSE IF rd.err # OK
             THEN [Outcome(rd.err, self, d, rd.io) EXCEPT !.faulted = rd.faulted]
        ELSE [Outcome(OK, self, d, rd.io) EXCEPT
                 !.ret_list = ListLoop(rd.data.memories, memory_type)]

\* the loop of update_memory without the test of the id
UpdateLoopAll(memories, memory_id, content, ts) ==
    [i \in 1..Len(memories) |->
        [memories[i] EXCEPT !.content = content, !.updated_at = ts]]

\* the loop of update_memory assigning the timestamp to created_at too
UpdateLoopTouchCreated(memories, memory_id, content, ts) ==
    LET i == FirstIndex(memories, memory_id)
    IN  IF i = 0 THEN memories
        ELSE [memories EXCEPT ![i] =
                 [@ EXCEPT !.content = content, !.created_at = ts,
                           !.updated_at = ts]]

\* the loop of update_memory: the first dict with the id gets the content
\* and updated_at, then break
UpdateLoop(memories, memory_id, content, ts) ==
    LET i == FirstIndex(memories, memory_id)
    IN  IF i = 0 THEN memories
        ELSE [memories EXCEPT ![i] =
                 [@ EXCEPT !.content = content, !.updated_at = ts]]

\* update_memory
UpdateMemoryOp(self, d, memory_id, content, ts, fault) ==
    LET e0 == EnsureActivated(self, d)
        rd == ReadMemoriesFile(self, d, fault)
        found == FirstIndex(rd.data.memories, memory_id) # 0
        data == [rd.data EXCEPT
                    !.memories = UpdateLoop(@, memory_id, content, ts)]
        wr == WriteMemoriesFile(d, data, fault)
    IN  IF e0 # OK THEN Outcome(e0, self, d, << >>)
        ELSE IF rd.err # OK
             THEN [Outcome(rd.err, self, d, rd.io) EXCEPT !.faulted = rd.faulted]
        ELSE IF ~found THEN Outcome(MemoryNotFoundError, self, d, rd.io)
        ELSE [Outcome(wr.err, self, wr.dir, rd.io \o wr.io) EXCEPT
                 !.clock = TRUE, !.faulted = wr.faulted]

\* delete_memory building the kept list back to front
DeleteFilterReversed(memories, memory_id) ==
    LET kept == SelectSeq(memories, LAMBDA m : m.id # memory_id)
    IN  [i \in 1..Len(kept) |-> kept[Len(kept) + 1 - i]]

\* the list comprehension of delete_memory with == for !=
DeleteFilterInverted(memories, memory_id) ==
    SelectSeq(memories, LAMBDA m : m.id = memory_id)

\* the list comprehension of delete_memory:
\* [m for m in data["memories"] if m["id"] != memory_id]
RECURSIVE DeleteFilter(_, _)
DeleteFilter(memories, memory_id) ==
    IF memories = << >> THEN << >>
    ELSE IF Head(memories).id # memory_id
         THEN <<Head(memories)>> \o DeleteFilter(Tail(memories), memory_id)
         ELSE DeleteFilter(Tail(memories), memory_id)

\* delete_memory without the comparison with original_length
DeleteMemoryOpNoCheck(self, d, memory_id, fault) ==
    LET e0 == EnsureActivated(self, d)
        rd == ReadMemoriesFile(self, d, fault)
        data == [rd.data EXCEPT !.memories = DeleteFilter(@, memory_id)]
        wr == WriteMemoriesFile(d, data, fault)
    IN  IF e0 # OK THEN Outcome(e0, self, d, << >>)
        ELSE IF rd.err # OK
             THEN [Outcome(rd.err, self, d, rd.io) EXCEPT !.faulted = rd.faulted]
        ELSE [Outcome(wr.err, self, wr.dir, rd.io \o wr.io) EXCEPT
                 !.faulted = wr.faulted]

\* delete_memory
DeleteMemoryOp(self, d, memory_id, fault) ==
    LET e0 == EnsureActivated(self, d)
        rd == ReadMemoriesFile(self, d, fault)
        original_length == Len(rd.data.memories)
        data == [rd.data EXCEPT !.memories = DeleteFilter(@, memory_id)]
        wr == WriteMemoriesFile(d, data, fault)
    IN  IF e0 # OK THEN Outcome(e0, self, d, << >>)
        ELSE IF rd.err # OK
             THEN [Outcome(rd.err, self, d, rd.io) EXCEPT !.faulted = rd.faulted]
        ELSE IF Len(data.memories) = original_length
             THEN Outcome(MemoryNotFoundError, self, d, rd.io)
        ELSE [Outcome(wr.err, self, wr.dir, rd.io \o wr.io) EXCEPT
                 !.faulted = wr.faulted]

----------------------------------------------------------------------------
(* The state machine: one action per call of a MemoryStorage method.  The  *)
(* parameter fault is the place where a file access of the call fails; a   *)
(* call with a fault is one that reaches that place.                       *)

\* server.py: the dict a tool returns when the method of the storage it
\* calls ends with err: {"success": True, ...} or {"error": code}; the
\* except clauses of the tool name the exception classes whose error_code
\* it returns, and "except Exception" gives storage_error
ToolResult(err, caught) ==
    IF err = OK THEN [success |-> TRUE, error |-> None]
    ELSE IF err \in caught THEN [success |-> FALSE, error |-> err]
    ELSE [success |-> FALSE, error |-> StorageError]

\* the error_code values of the subclasses of MemoryError
MemoryErrorCodes ==
    { InvalidMemoryTypeError, MissingRequiredFieldError, MemoryNotFoundError,
      ProjectNotActivatedError, StorageError }

\* the tool activate_project returning the code its docstring names
tool_activate_project_docstring(err) ==
    IF err = OK THEN [success |-> TRUE, error |-> None]
    ELSE [success |-> FALSE, error |-> "cannot_create_project_dir"]

\* the tools activate_project, store_memory, get_memory, list_memories,
\* update_memory and delete_memory of server.py
tool_activate_project(err) == ToolResult(err, MemoryErrorCodes)
tool_store_memory(err) ==
    ToolResult(err, {InvalidMemoryTypeError, MissingRequiredFieldError,
                     ProjectNotActivatedError})
tool_get_memory(err) ==
    ToolResult(err, {MemoryNotFoundError, ProjectNotActivatedError})
tool_list_memories(err) == ToolResult(err, {ProjectNotActivatedError})
tool_update_memory(err) ==
    ToolResult(err, {MemoryNotFoundError, ProjectNotActivatedError})
tool_delete_memory(err) ==
    ToolResult(err, {MemoryNotFoundError, ProjectNotActivatedError})

Tool(op, err) ==
    CASE op = "activate" -> tool_activate_project(err)
      [] op = "store" -> tool_store_memory(err)
      [] op = "get" -> tool_get_memory(err)
      [] op = "list" -> tool_list_memories(err)
      [] op = "update" -> tool_update_memory(err)
      [] op = "delete" -> tool_delete_memory(err)
      [] OTHER -> ToolResult(err, {})

\* the record of a call: what was called with what, what came of it, and
\* what the tool of server.py that makes the call returns for it
Call(op, s, title, type, content, memory_id, r) ==
    [op |-> op, store |-> s, title |-> title, type |-> type,
     content |-> content, memory_id |-> memory_id,
     err |-> r.err, ret_id |-> r.ret_id, ret_memory |-> r.ret_memory,
     ret_list |-> r.ret_list, io |-> r.io, tool |-> Tool(op, r.err)]

\* the effect of a call with outcome r by instance s, the clock read being t
Apply(s, r, t, fault) ==
    /\ calls < MaxCalls
    /\ fault = "none" \/ r.faulted
    /\ r.clock \/ t = now
    /\ fs' = [fs EXCEPT ![r.self.working_dir] = r.dir]
    /\ store' = [store EXCEPT ![s] = r.self]
    /\ uuidCtr' = uuidCtr + r.uuids
    /\ now' = t
    /\ calls' = calls + 1
    /\ UNCHANGED <<pending, cwd>>

\* the values a read of the clock can give: it never goes back
ClockReads == {now, now + 1}

ActivateOn(s, self, fault) ==
    LET r == ActivateProject(self, fs[self.working_dir], Uuid(uuidCtr + 1), fault)
    IN  /\ Apply(s, r, now, fault)
        /\ activated' = IF r.err = OK THEN activated \cup {s} ELSE activated
        /\ first_id' = IF r.err = OK /\ first_id[self.working_dir] = None
                       THEN [first_id EXCEPT ![self.working_dir] = r.ret_id]
                       ELSE first_id
        /\ UNCHANGED <<deleted, updated, created>>
        /\ last' = Call("activate", s, None, None, None, None, r)

Activate(s, fault) ==
    ActivateOn(s, store[s], fault)

StoreMemoryOn(s, self, title, type, content, fault) ==
    \E t \in ClockReads :
        LET r == StoreMemoryOp(self, fs[self.working_dir], title, type, content,
                               Uuid(uuidCtr + 1), get_iso_timestamp(t), fault)
        IN  /\ Apply(s, r, t, fault)
            /\ UNCHANGED <<activated, deleted, updated, first_id>>
            /\ created' = IF r.err = OK THEN created \cup {r.ret_id} ELSE created
            /\ last' = Call("store", s, title, type, content, None, r)

StoreMemory(s, title, type, content, fault) ==
    StoreMemoryOn(s, store[s], title, type, content, fault)

GetMemoryOn(s, self, memory_id, fault) ==
    LET r == GetMemoryOp(self, fs[self.working_dir], memory_id, fault)
    IN  /\ Apply(s, r, now, fault)
        /\ UNCHANGED <<activated, deleted, updated, first_id, created>>
        /\ last' = Call("get", s, None, None, None, memory_id, r)

GetMemory(s, memory_id, fault) ==
    GetMemoryOn(s, store[s], memory_id, fault)

ListMemoriesOn(s, self, type, fault) ==
    LET r == ListMemoriesOp(self, fs[self.working_dir], type, fault)
    IN  /\ Apply(s, r, now, fault)
        /\ UNCHANGED <<activated, deleted, updated, first_id, created>>
        /\ last' = Call("list", s, None, type, None, None, r)

ListMemories(s, type, fault) ==
    ListMemoriesOn(s, store[s], type, fault)

UpdateMemoryOn(s, self, memory_id, content, fault) ==
    \E t \in ClockReads :
        LET r == UpdateMemoryOp(self, fs[self.working_dir], memory_id, content,
                                get_iso_timestamp(t), fault)
        IN  /\ Apply(s, r, t, fault)
            /\ UNCHANGED <<activated, deleted, first_id, created>>
            /\ updated' = IF r.err = OK THEN updated \cup {memory_id} ELSE updated
            /\ last' = Call("update", s, None, None, content, memory_id, r)

UpdateMemory(s, memory_id, content, fault) ==
    UpdateMemoryOn(s, store[s], memory_id, content, fault)

DeleteMemoryOn(s, self, memory_id, fault) ==
    LET r == DeleteMemoryOp(self, fs[self.working_dir], memory_id, fault)
    IN  /\ Apply(s, r, now, fault)
        /\ UNCHANGED <<activated, updated, first_id, created>>
        /\ deleted' = IF r.err = OK THEN deleted \cup {memory_id} ELSE deleted
        /\ last' = Call("delete", s, None, None, None, memory_id, r)

DeleteMemory(s, memory_id, fault) ==
    DeleteMemoryOn(s, store[s], memory_id, fault)

\* no call of the instance is between its read and its write
NoPending ==
    [op |-> "none", data |-> NoData, id |-> None, title |-> None,
     type |-> None, content |-> None, io |-> << >>, at |-> "none"]

NoCall == Call("none", "s1", None, None, None, None,
               Outcome(OK, NewStorage("A"), EmptyDir, << >>))

\* two instances constructed on the same empty working directory
Init ==
    /\ fs = [d \in Dirs |-> EmptyDir]
    /\ store = [s \in Stores |-> NewStorage("A")]
    /\ uuidCtr = 0
    /\ now = 0
    /\ calls = 0
    /\ activated = {}
    /\ deleted = {}
    /\ updated = {}
    /\ first_id = [d \in Dirs |-> None]
    /\ created = {}
    /\ pending = [s \in Stores |-> NoPending]
    /\ cwd = "A"
    /\ last = NoCall

\* the calls when no file access fails
Next ==
    \/ \E s \in Stores : Activate(s, "none")
    \/ \E s \in Stores, title \in Titles, type \in Types, content \in Contents :
          StoreMemory(s, title, type, content, "none")
    \/ \E s \in Stores, memory_id \in MemoryIds : GetMemory(s, memory_id, "none")
    \/ \E s \in Stores, type \in Filters : ListMemories(s, type, "none")
    \/ \E s \in Stores, memory_id \in MemoryIds, content \in Contents :
          UpdateMemory(s, memory_id, content, "none")
    \/ \E s \in Stores, memory_id \in MemoryIds : DeleteMemory(s, memory_id, "none")

Spec == Init /\ [][Next]_vars

\* the calls when a file access of activate_project can fail
NextActivateFault ==
    \/ Next
    \/ \E s \in Stores, fault \in Faults : Activate(s, fault)

SpecActivateFault == Init /\ [][NextActivateFault]_vars

\* fewer arguments, for the calls of two projects and the calls that can
\* fail: a missing and a given title, an allowed and a rejected type, a
\* missing and a given content, no filter and a filter
FewTitles == {"", "T1"}
FewTypes == {"design_doc", "rules"}
FewContents == {None, "c1"}
FewFilters == {None, "design_doc"}

\* the working directory each instance is constructed with when the two
\* are instances of two projects
WorkingDirOf(s) == IF s = "s1" THEN "A" ELSE "B"

\* two instances constructed on two empty working directories
InitTwoDirs ==
    /\ fs = [d \in Dirs |-> EmptyDir]
    /\ store = [s \in Stores |-> NewStorage(WorkingDirOf(s))]
    /\ uuidCtr = 0
    /\ now = 0
    /\ calls = 0
    /\ activated = {}
    /\ deleted = {}
    /\ updated = {}
    /\ first_id = [d \in Dirs |-> None]
    /\ created = {}
    /\ pending = [s \in Stores |-> NoPending]
    /\ cwd = "A"
    /\ last = NoCall

\* the calls of the two instances when no file access fails
NextTwoDirs ==
    \/ \E s \in Stores : Activate(s, "none")
    \/ \E s \in Stores, title \in FewTitles, type \in FewTypes,
          content \in FewContents : StoreMemory(s, title, type, content, "none")
    \/ \E s \in Stores, memory_id \in MemoryIds : GetMemory(s, memory_id, "none")
    \/ \E s \in Stores, type \in FewFilters : ListMemories(s, type, "none")
    \/ \E s \in Stores, memory_id \in MemoryIds, content \in FewContents :
          UpdateMemory(s, memory_id, content, "none")
    \/ \E s \in Stores, memory_id \in MemoryIds : DeleteMemory(s, memory_id, "none")

SpecTwoDirs == InitTwoDirs /\ [][NextTwoDirs]_vars

\* an instance on which activate_project has just returned, on a directory
\* that was empty; calls counts the calls made after it
InitActivated ==
    LET self == NewStorage("A")
        r == ActivateProject(self, EmptyDir, Uuid(1), "none")
    IN  /\ fs = [d \in Dirs |-> IF d = "A" THEN r.dir ELSE EmptyDir]
        /\ store = [s \in Stores |-> IF s = "s1" THEN r.self ELSE self]
        /\ uuidCtr = 1
        /\ now = 0
        /\ calls = 0
        /\ activated = {"s1"}
        /\ deleted = {}
        /\ updated = {}
        /\ first_id = [d \in Dirs |-> IF d = "A" THEN r.ret_id ELSE None]
        /\ created = {}
        /\ pending = [s \in Stores |-> NoPending]
        /\ cwd = "A"
        /\ last = Call("activate", "s1", None, None, None, None, r)

\* the calls of the activated instance when no file access fails
NextActivated ==
    \/ \E title \in FewTitles, type \in FewTypes, content \in FewContents :
          StoreMemory("s1", title, type, content, "none")
    \/ \E memory_id \in MemoryIds : GetMemory("s1", memory_id, "none")
    \/ \E type \in FewFilters : ListMemories("s1", type, "none")
    \/ \E memory_id \in MemoryIds, content \in FewContents :
          UpdateMemory("s1", memory_id, content, "none")
    \/ \E memory_id \in MemoryIds : DeleteMemory("s1", memory_id, "none")

SpecActivated == InitActivated /\ [][NextActivated]_vars

\* the calls of the activated instance when a content can be a value that
\* json.dump cannot serialize
NextUnserializable ==
    \/ NextActivated
    \/ \E title \in FewTitles, type \in FewTypes :
          StoreMemory("s1", title, type, Unserializable, "none")
    \/ \E memory_id \in MemoryIds :
          UpdateMemory("s1", memory_id, Unserializable, "none")

SpecUnserializable == InitActivated /\ [][NextUnserializable]_vars

\* The tools of server.py.  The global "storage" is store["s1"], NoStorage
\* while it is None; every tool calls get_storage() and then the method of
\* the instance it returns.
NoStorage == [working_dir |-> None, project_id |-> None]

\* get_storage() of a process whose working directory is dir: the instance
\* it returns, which it assigns to the global
get_storage(storage, dir) ==
    IF storage = NoStorage THEN NewStorage(dir) ELSE storage

\* os.chdir of the process of the tools
Chdir(dir) ==
    /\ dir # cwd
    /\ cwd' = dir
    /\ UNCHANGED <<fs, store, uuidCtr, now, calls, activated, deleted, updated,
                   first_id, created, pending, last>>

ToolActivateProject ==
    ActivateOn("s1", get_storage(store["s1"], cwd), "none")

ToolStoreMemory(title, type, content) ==
    StoreMemoryOn("s1", get_storage(store["s1"], cwd), title, type, content,
                  "none")

ToolGetMemory(memory_id) ==
    GetMemoryOn("s1", get_storage(store["s1"], cwd), memory_id, "none")

ToolListMemories(type) ==
    ListMemoriesOn("s1", get_storage(store["s1"], cwd), type, "none")

ToolUpdateMemory(memory_id, content) ==
    UpdateMemoryOn("s1", get_storage(store["s1"], cwd), memory_id, content,
                   "none")

ToolDeleteMemory(memory_id) ==
    DeleteMemoryOn("s1", get_storage(store["s1"], cwd), memory_id, "none")

\* the server process after the import of server.py, in working directory A
InitTools ==
    /\ fs = [d \in Dirs |-> EmptyDir]
    /\ store = [s \in Stores |-> NoStorage]
    /\ uuidCtr = 0
    /\ now = 0
    /\ calls = 0
    /\ activated = {}
    /\ deleted = {}
    /\ updated = {}
    /\ first_id = [d \in Dirs |-> None]
    /\ created = {}
    /\ pending = [s \in Stores |-> NoPending]
    /\ cwd = "A"
    /\ last = NoCall

NextTools ==
    \/ \E dir \in Dirs : Chdir(dir)
    \/ ToolActivateProject
    \/ \E title \in FewTitles, type \in FewTypes, content \in FewContents :
          ToolStoreMemory(title, type, content)
    \/ \E memory_id \in MemoryIds : ToolGetMemory(memory_id)
    \/ \E type \in FewFilters : ToolListMemories(type)
    \/ \E memory_id \in MemoryIds, content \in FewContents :
          ToolUpdateMemory(memory_id, content)
    \/ \E memory_id \in MemoryIds : ToolDeleteMemory(memory_id)

SpecTools == InitTools /\ [][NextTools]_vars

\* The calls of two processes on one directory, each process with its own
\* instance.  A call that changes memories.json is two steps, between which
\* the other process can run: Begin is the call up to the change of the dict
\* it has read, Finish is its _write_memories_file and its return.
Running == {s \in Stores : pending[s] # NoPending}

Begin(s, op, title, type, content, memory_id, r) ==
    /\ pending[s] = NoPending
    /\ calls + Cardinality(Running) < MaxCalls
    /\ r.err = OK
    /\ pending' = [pending EXCEPT ![s] =
                      [op |-> op, data |-> r.dir.memories_file.data,
                       id |-> IF op = "store" THEN r.ret_id ELSE memory_id,
                       title |-> title, type |-> type, content |-> content,
                       io |-> <<"exists:memories.json", "read:memories.json">>,
                       at |-> "read"]]
    /\ uuidCtr' = uuidCtr + r.uuids
    /\ UNCHANGED <<fs, store, calls, activated, deleted, updated, first_id,
                   created, cwd, last>>

BeginStore(s, title, type, content) ==
    \E t \in ClockReads :
        LET self == store[s]
            r == StoreMemoryOp(self, fs[self.working_dir], title, type, content,
                               Uuid(uuidCtr + 1), get_iso_timestamp(t), "none")
        IN  Begin(s, "store", title, type, content, None, r) /\ now' = t

BeginUpdate(s, memory_id, content) ==
    \E t \in ClockReads :
        LET self == store[s]
            r == UpdateMemoryOp(self, fs[self.working_dir], memory_id, content,
                                get_iso_timestamp(t), "none")
        IN  Begin(s, "update", None, None, content, memory_id, r) /\ now' = t

BeginDelete(s, memory_id) ==
    LET self == store[s]
        r == DeleteMemoryOp(self, fs[self.working_dir], memory_id, "none")
    IN  Begin(s, "delete", None, None, None, memory_id, r) /\ now' = now

Finish(s) ==
    LET self == store[s]
        p == pending[s]
        wr == WriteMemoriesFile(fs[self.working_dir], p.data, "none")
        r == [Outcome(wr.err, self, wr.dir, p.io \o wr.io) EXCEPT
                 !.ret_id = IF p.op = "store" /\ wr.err = OK THEN p.id ELSE None]
    IN  /\ p.op \in {"store", "update", "delete"}
        /\ fs' = [fs EXCEPT ![self.working_dir] = wr.dir]
        /\ pending' = [pending EXCEPT ![s] = NoPending]
        /\ calls' = calls + 1
        /\ created' = IF p.op = "store" /\ wr.err = OK
                      THEN created \cup {p.id} ELSE created
        /\ updated' = IF p.op = "update" /\ wr.err = OK
                      THEN updated \cup {p.id} ELSE updated
        /\ deleted' = IF p.op = "delete" /\ wr.err = OK
                      THEN deleted \cup {p.id} ELSE deleted
        /\ last' = Call(p.op, s, p.title, p.type, p.content,
                        IF p.op = "store" THEN None ELSE p.id, r)
        /\ UNCHANGED <<store, uuidCtr, now, activated, first_id, cwd>>

\* activate_project is two steps as well when it finds no identity file:
\* BeginActivate is the call up to "if self.project_id_path.exists()",
\* FinishActivate is the rest of it, run for the directory as the call
\* saw it, without identity file
BeginActivate(s) ==
    LET self == store[s]
        d == fs[self.working_dir]
    IN  /\ pending[s] = NoPending
        /\ calls + Cardinality(Running) < MaxCalls
        /\ ~IdentityFileExists(d)
        /\ fs' = [fs EXCEPT ![self.working_dir].infinity_dir = TRUE]
        /\ pending' = [pending EXCEPT ![s] =
                          [NoPending EXCEPT
                              !.op = "activate",
                              !.io = IF d.infinity_dir
                                     THEN <<"exists:.infinity">>
                                     ELSE <<"exists:.infinity", "mkdir:.infinity">>]]
        /\ UNCHANGED <<store, uuidCtr, now, calls, activated, deleted, updated,
                       first_id, created, cwd, last>>

FinishActivate(s) ==
    LET self == store[s]
        seen == [fs[self.working_dir] EXCEPT !.project_id_file = NoTextFile]
        r == ActivateProject(self, seen, Uuid(uuidCtr + 1), "none")
    IN  /\ pending[s].op = "activate"
        /\ fs' = [fs EXCEPT ![self.working_dir] = r.dir]
        /\ store' = [store EXCEPT ![s] = r.self]
        /\ uuidCtr' = uuidCtr + r.uuids
        /\ calls' = calls + 1
        /\ pending' = [pending EXCEPT ![s] = NoPending]
        /\ activated' = IF r.err = OK THEN activated \cup {s} ELSE activated
        /\ first_id' = IF r.err = OK /\ first_id[self.working_dir] = None
                       THEN [first_id EXCEPT ![self.working_dir] = r.ret_id]
                       ELSE first_id
        /\ last' = Call("activate", s, None, None, None, None,
                        [r EXCEPT !.io = pending[s].io \o Tail(r.io)])
        /\ UNCHANGED <<now, deleted, updated, created, cwd>>

NextInterleaved ==
    \/ \E s \in Stores : Activate(s, "none")
    \/ \E s \in Stores : BeginActivate(s)
    \/ \E s \in Stores : FinishActivate(s)
    \/ \E s \in Stores, title \in FewTitles, type \in FewTypes,
          content \in FewContents : BeginStore(s, title, type, content)
    \/ \E s \in Stores, memory_id \in MemoryIds, content \in FewContents :
          BeginUpdate(s, memory_id, content)
    \/ \E s \in Stores, memory_id \in MemoryIds : BeginDelete(s, memory_id)
    \/ \E s \in Stores : Finish(s)
    \/ \E s \in Stores, memory_id \in MemoryIds : GetMemory(s, memory_id, "none")
    \/ \E s \in Stores, type \in FewFilters : ListMemories(s, type, "none")

SpecInterleaved == Init /\ [][NextInterleaved]_vars

\* The steps of _write_memories_file when the calls of two processes
\* interleave inside it.  Both processes use the one path memories.tmp.
\* pending[s].at is the place of the call: "read" before the open,
\* "open:<name>" while its file object is open, <name> being the name the
\* file it has open goes by now ("unlinked" when no name is left),
\* "written" after the with block.

\* the number of characters json.dump writes for a title, type or content
ValueLen(v) == IF v = None THEN 4 ELSE Len(v) + 2

\* the number of characters of a timestamp of get_iso_timestamp, quoted,
\* or of null
StampLen(v) == IF v = None THEN 4 ELSE 29

\* the number of characters json.dump(data, f, indent=2) writes for a
\* memory dict: keys, punctuation, a quoted uuid and the values
RECURSIVE MemoriesLen(_)
MemoriesLen(memories) ==
    IF memories = << >> THEN 0
    ELSE LET m == Head(memories)
         IN  150 + ValueLen(m.title) + ValueLen(m.type) + ValueLen(m.content)
                 + StampLen(m.created_at) + StampLen(m.updated_at)
                 + MemoriesLen(Tail(memories))

\* the number of characters of a file of the directory
FileLen(f) ==
    IF ~f.exists \/ f.data = NoData THEN 0
    ELSE 40 + ValueLen(f.data.project_id) + MemoriesLen(f.data.memories)

\* open(temp_path, "w"): memories.tmp is created, or truncated when it
\* exists
OpenTemp(d) == [d EXCEPT !.tmp_file = JsonFile(NoData, FALSE)]

\* the text of a file after json.dump of data from its start: the text
\* before stays behind where it was longer
Dumped(f, data) ==
    IF FileLen(f) > FileLen(JsonFile(data, TRUE))
    THEN JsonFile(f.data, FALSE)
    ELSE JsonFile(data, TRUE)

\* json.dump(data, f, indent=2) and the close of f: the text goes into the
\* file f is open on, whatever its name is now
DumpTemp(d, at, data) ==
    IF at = "open:tmp" THEN [d EXCEPT !.tmp_file = Dumped(@, data)]
    ELSE IF at = "open:memories"
    THEN [d EXCEPT !.memories_file = Dumped(@, data)]
    ELSE d

\* temp_path.replace(self.memories_path): [err, dir]; FileNotFoundError,
\* an OSError, when memories.tmp is not there
ReplaceTemp(d) ==
    IF ~d.tmp_file.exists
    THEN [err |-> StorageError, dir |-> d]
    ELSE [err |-> OK,
          dir |-> [d EXCEPT !.memories_file = d.tmp_file,
                            !.tmp_file = NoJsonFile]]

\* the name of an open file after memories.tmp replaced memories.json
Renamed(at) ==
    IF at = "open:tmp" THEN "open:memories"
    ELSE IF at = "open:memories" THEN "open:unlinked"
    ELSE at

OpenStep(s) ==
    LET self == store[s]
    IN  /\ pending[s].at = "read"
        /\ fs' = [fs EXCEPT ![self.working_dir] = OpenTemp(@)]
        /\ pending' = [pending EXCEPT
                          ![s].at = "open:tmp",
                          ![s].io = @ \o <<"open:memories.tmp">>]
        /\ UNCHANGED <<store, uuidCtr, now, calls, activated, deleted, updated,
                       first_id, created, cwd, last>>

DumpStep(s) ==
    LET self == store[s]
        p == pending[s]
    IN  /\ p.at \in {"open:tmp", "open:memories", "open:unlinked"}
        /\ fs' = [fs EXCEPT ![self.working_dir] = DumpTemp(@, p.at, p.data)]
        /\ pending' = [pending EXCEPT
                          ![s].at = "written",
                          ![s].io = @ \o <<"write:memories.tmp">>]
        /\ UNCHANGED <<store, uuidCtr, now, calls, activated, deleted, updated,
                       first_id, created, cwd, last>>

\* the rename and the return of the call
ReplaceStep(s) ==
    LET self == store[s]
        p == pending[s]
        wr == ReplaceTemp(fs[self.working_dir])
        r == [Outcome(wr.err, self, wr.dir,
                      p.io \o <<"replace:memories.json">>) EXCEPT
                 !.ret_id = IF p.op = "store" /\ wr.err = OK THEN p.id ELSE None]
    IN  /\ p.at = "written"
        /\ fs' = [fs EXCEPT ![self.working_dir] = wr.dir]
        /\ pending' = [t \in Stores |->
                          IF t = s THEN NoPending
                          ELSE IF wr.err = OK
                                  /\ store[t].working_dir = self.working_dir
                          THEN [pending[t] EXCEPT !.at = Renamed(@)]
                          ELSE pending[t]]
        /\ calls' = calls + 1
        /\ created' = IF p.op = "store" /\ wr.err = OK
                      THEN created \cup {p.id} ELSE created
        /\ updated' = IF p.op = "update" /\ wr.err = OK
                      THEN updated \cup {p.id} ELSE updated
        /\ deleted' = IF p.op = "delete" /\ wr.err = OK
                      THEN deleted \cup {p.id} ELSE deleted
        /\ last' = Call(p.op, s, p.title, p.type, p.content,
                        IF p.op = "store" THEN None ELSE p.id, r)
        /\ UNCHANGED <<store, uuidCtr, now, activated, first_id, cwd>>

\* two processes whose instances have both activated the directory, which
\* was empty
InitWriteSteps ==
    LET r1 == ActivateProject(NewStorage("A"), EmptyDir, Uuid(1), "none")
        r2 == ActivateProject(NewStorage("A"), r1.dir, Uuid(2), "none")
    IN  /\ fs = [d \in Dirs |-> IF d = "A" THEN r2.dir ELSE EmptyDir]
        /\ store = [s \in Stores |-> IF s = "s1" THEN r1.self ELSE r2.self]
        /\ uuidCtr = 1
        /\ now = 0
        /\ calls = 0
        /\ activated = Stores
        /\ deleted = {}
        /\ updated = {}
        /\ first_id = [d \in Dirs |-> IF d = "A" THEN r1.ret_id ELSE None]
        /\ created = {}
        /\ pending = [s \in Stores |-> NoPending]
        /\ cwd = "A"
        /\ last = Call("activate", "s2", None, None, None, None, r2)

NextWriteSteps ==
    \/ \E s \in Stores, title \in FewTitles, type \in FewTypes,
          content \in FewContents : BeginStore(s, title, type, content)
    \/ \E s \in Stores, memory_id \in MemoryIds, content \in FewContents :
          BeginUpdate(s, memory_id, content)
    \/ \E s \in Stores, memory_id \in MemoryIds : BeginDelete(s, memory_id)
    \/ \E s \in Stores : OpenStep(s)
    \/ \E s \in Stores : DumpStep(s)
    \/ \E s \in Stores : ReplaceStep(s)

SpecWriteSteps == InitWriteSteps /\ [][NextWriteSteps]_vars

\* the calls of one instance when any file access of any method can fail
AnyFault == Faults \cup {"none"}

NextFault ==
    \/ \E fault \in AnyFault : Activate("s1", fault)
    \/ \E title \in FewTitles, type \in FewTypes, content \in FewContents,
          fault \in AnyFault : StoreMemory("s1", title, type, content, fault)
    \/ \E memory_id \in MemoryIds, fault \in AnyFault :
          GetMemory("s1", memory_id, fault)
    \/ \E type \in FewFilters, fault \in AnyFault :
          ListMemories("s1", type, fault)
    \/ \E memory_id \in MemoryIds, content \in FewContents, fault \in AnyFault :
          UpdateMemory("s1", memory_id, content, fault)
    \/ \E memory_id \in MemoryIds, fault \in AnyFault :
          DeleteMemory("s1", memory_id, fault)

SpecFault == Init /\ [][NextFault]_vars

\* The process of instance s dies inside activate_project, at the file
\* access named by point (before the access has its effect, the identity
\* file being created empty by the open of write_text): the directory is
\* left as the call made it up to there, nothing is returned, and the
\* process that is started next has a new instance.
Crashed == "crashed"

CrashInActivate(s, point) ==
    LET self == store[s]
        r == ActivateProject(self, fs[self.working_dir], Uuid(uuidCtr + 1), point)
    IN  /\ calls < MaxCalls
        /\ r.faulted
        /\ fs' = [fs EXCEPT ![self.working_dir] = r.dir]
        /\ store' = [store EXCEPT ![s] = NewStorage(self.working_dir)]
        /\ uuidCtr' = uuidCtr + r.uuids
        /\ calls' = calls + 1
        /\ activated' = activated \ {s}
        /\ last' = [Call("crash", s, None, None, None, None,
                         Outcome(Crashed, self, r.dir, r.io))
                        EXCEPT !.tool = [success |-> FALSE, error |-> None]]
        /\ UNCHANGED <<now, deleted, updated, first_id, created, pending, cwd>>

\* the calls of two processes in turn when a process can die inside
\* activate_project
NextCrash ==
    \/ \E s \in Stores : Activate(s, "none")
    \/ \E s \in Stores, point \in ActivateFaults \cup WriteFaults :
          CrashInActivate(s, point)
    \/ \E s \in Stores, title \in FewTitles, type \in FewTypes,
          content \in FewContents : StoreMemory(s, title, type, content, "none")
    \/ \E s \in Stores, type \in FewFilters : ListMemories(s, type, "none")

SpecCrash == Init /\ [][NextCrash]_vars

----------------------------------------------------------------------------
(* Properties.  A step of a call is one that increments calls; last' is    *)
(* then the record of that call, and the unprimed variables are the state  *)
(* the call was made in.                                                   *)

IsCall == calls' = calls + 1
RecordOps == {"store", "get", "list", "update", "delete"}

\* the dict list of memories.json in the directory of instance s, in file
\* system f
Memories(f, s) == f[store[s].working_dir].memories_file.data.memories

\* the eight type values the tests and the tool's docstring list
DocumentedTypes ==
    { "design_doc", "project_overview", "implementation_plan",
      "progress_tracker", "test_plan", "instructions", "rules", "analysis" }

ValidTitle(title) == title # None /\ title # ""

\* the timestamps the clock has given so far
PastTimestamps == {get_iso_timestamp(t) : t \in 0..now}

\* C1: on an instance on which no activate_project has succeeded, each of
\* store, get, list, update, delete fails with project_not_activated, makes
\* no file access and leaves the file system as it was, whatever its
\* arguments and whatever files the directory holds.
C1_NeverActivatedFails ==
    [][ (IsCall /\ last'.op \in RecordOps /\ last'.store \notin activated)
        => /\ last'.err = ProjectNotActivatedError
           /\ last'.io = << >>
           /\ fs' = fs ]_vars

\* C2: on an activated instance, store_memory with a non-empty title, a type
\* of ALLOWED_MEMORY_TYPES and a content that is not None returns an id, and
\* a get_memory of that id made next returns the memory with that id, title,
\* type and content, created_at set and updated_at None.
C2_CreateReadRoundTrip ==
    [][ /\ (/\ IsCall /\ last'.op = "store" /\ last'.store \in activated
            /\ ValidTitle(last'.title)
            /\ last'.type \in ALLOWED_MEMORY_TYPES
            /\ last'.content # None)
           => /\ last'.err = OK
              /\ last'.ret_id # None
        /\ (/\ IsCall /\ last.op = "store" /\ last.err = OK
            /\ last'.op = "get" /\ last'.store = last.store
            /\ last'.memory_id = last.ret_id)
           => /\ last'.err = OK
              /\ last'.ret_memory.id = last.ret_id
              /\ last'.ret_memory.title = last.title
              /\ last'.ret_memory.type = last.type
              /\ last'.ret_memory.content = last.content
              /\ last'.ret_memory.created_at \in PastTimestamps
              /\ last'.ret_memory.updated_at = None ]_vars

\* C2 witness: activate, store("T1", "guidelines", "c1"), get of the new id
C2_Witness ==
    /\ calls = 3 /\ last.op = "get" /\ last.err = OK
    /\ last.memory_id = Uuid(uuidCtr)
    /\ last.ret_memory.title = "T1"
    /\ last.ret_memory.type = "guidelines"
    /\ last.ret_memory.content = "c1"

\* C3 as stated: on an activated instance, store_memory with a type outside
\* ALLOWED_MEMORY_TYPES fails with invalid_memory_type and leaves the file
\* system as it was.
C3_InvalidTypeAnyTitle ==
    [][ (/\ IsCall /\ last'.op = "store" /\ last'.store \in activated
         /\ last'.type \notin ALLOWED_MEMORY_TYPES)
        => /\ last'.err = InvalidMemoryTypeError
           /\ last'.io = << >>
           /\ fs' = fs ]_vars

\* C3 amended: on an activated instance, store_memory with a type outside
\* ALLOWED_MEMORY_TYPES makes no file access and leaves the file system as
\* it was; it fails with invalid_memory_type when the title is non-empty,
\* and with missing_required_field when the title is empty or None.
C3_InvalidTypeRejected ==
    [][ (/\ IsCall /\ last'.op = "store" /\ last'.store \in activated
         /\ last'.type \notin ALLOWED_MEMORY_TYPES)
        => /\ last'.err = IF ValidTitle(last'.title)
                          THEN InvalidMemoryTypeError
                          ELSE MissingRequiredFieldError
           /\ last'.io = << >>
           /\ fs' = fs ]_vars

\* C3 witness: a store with title "T1" and type "rules" made on a
\* collection of one memory fails with invalid_memory_type
C3_Witness ==
    /\ last.op = "store" /\ last.store \in activated
    /\ last.title = "T1" /\ last.type = "rules"
    /\ last.err = InvalidMemoryTypeError
    /\ Len(Memories(fs, last.store)) = 1

\* C4: on an activated instance, store_memory with an empty or None title
\* fails with missing_required_field, makes no file access and leaves the
\* file system as it was, whatever the type and the content.
C4_MissingTitleRejected ==
    [][ (/\ IsCall /\ last'.op = "store" /\ last'.store \in activated
         /\ ~ValidTitle(last'.title))
        => /\ last'.err = MissingRequiredFieldError
           /\ last'.io = << >>
           /\ fs' = fs ]_vars

\* C4 witness: a store with an empty title, a type outside the set and a
\* None content, made on a collection of one memory
C4_Witness ==
    /\ last.op = "store" /\ last.store \in activated
    /\ last.title = "" /\ last.type = "rules" /\ last.content = None
    /\ last.err = MissingRequiredFieldError
    /\ Len(Memories(fs, last.store)) = 1

\* C5: on an activated instance, store_memory with a non-empty title and a
\* content succeeds and returns an id for each of the eight documented type
\* values, "rules" among them.
C5_DocumentedTypesAccepted ==
    [][ (/\ IsCall /\ last'.op = "store" /\ last'.store \in activated
         /\ ValidTitle(last'.title) /\ last'.content # None
         /\ last'.type \in DocumentedTypes)
        => /\ last'.err = OK
           /\ last'.ret_id # None ]_vars

\* C6 as stated: on an activated instance, store_memory with a None content
\* fails with missing_required_field and persists nothing, and store_memory
\* with an empty content succeeds.
C6_ContentAnyTitleAnyType ==
    [][ /\ (/\ IsCall /\ last'.op = "store" /\ last'.store \in activated
            /\ last'.content = None)
           => /\ last'.err = MissingRequiredFieldError
              /\ fs' = fs
        /\ (/\ IsCall /\ last'.op = "store" /\ last'.store \in activated
            /\ last'.content = "")
           => last'.err = OK ]_vars

\* C6 amended: on an activated instance, with a non-empty title and a type
\* of ALLOWED_MEMORY_TYPES, store_memory with a None content fails with
\* missing_required_field and persists nothing, store_memory with an empty
\* content succeeds, appends a memory with content "", and a get_memory of
\* the returned id made next returns content "".
C6_NoneContentRejectedEmptyAccepted ==
    [][ /\ (/\ IsCall /\ last'.op = "store" /\ last'.store \in activated
            /\ ValidTitle(last'.title)
            /\ last'.type \in ALLOWED_MEMORY_TYPES
            /\ last'.content = None)
           => /\ last'.err = MissingRequiredFieldError
              /\ last'.io = << >>
              /\ fs' = fs
        /\ (/\ IsCall /\ last'.op = "store" /\ last'.store \in activated
            /\ ValidTitle(last'.title)
            /\ last'.type \in ALLOWED_MEMORY_TYPES
            /\ last'.content = "")
           => /\ last'.err = OK
              /\ LET new == Memories(fs', last'.store)
                 IN  /\ Len(new) = Len(Memories(fs, last'.store)) + 1
                     /\ new[Len(new)].id = last'.ret_id
                     /\ new[Len(new)].content = ""
        /\ (/\ IsCall /\ last.op = "store" /\ last.err = OK
            /\ last.content = ""
            /\ last'.op = "get" /\ last'.store = last.store
            /\ last'.memory_id = last.ret_id)
           => /\ last'.err = OK
              /\ last'.ret_memory.content = "" ]_vars

\* C6 witness: a store with a None content was rejected on a collection that
\* holds a memory stored with an empty content
C6_Witness ==
    /\ last.op = "store" /\ last.store \in activated
    /\ last.title = "T1" /\ last.type = "design_doc" /\ last.content = None
    /\ last.err = MissingRequiredFieldError
    /\ Len(Memories(fs, last.store)) = 1
    /\ Memories(fs, last.store)[1].content = ""

\* the memories after an update of the memory with the id: it alone gets
\* the content and updated_at, and keeps its other fields
UpdatedOnly(old, memory_id, content, ts) ==
    [j \in 1..Len(old) |->
        IF old[j].id = memory_id
        THEN [id |-> old[j].id, title |-> old[j].title, type |-> old[j].type,
              content |-> content, created_at |-> old[j].created_at,
              updated_at |-> ts]
        ELSE old[j]]

\* C7: a successful update_memory(id, content) changes, on disk, only the
\* content and updated_at of the memory with that id: its id, title, type
\* and created_at, every other memory, the number and order of the
\* memories and every other file stay as they were.
C7_UpdateFrame ==
    [][ (IsCall /\ last'.op = "update" /\ last'.err = OK)
        => LET dir == store[last'.store].working_dir
               old == Memories(fs, last'.store)
           IN  /\ \E j \in 1..Len(old) : old[j].id = last'.memory_id
               /\ fs' = [fs EXCEPT ![dir].memories_file.data.memories =
                            UpdatedOnly(old, last'.memory_id, last'.content,
                                        get_iso_timestamp(now'))] ]_vars

\* C7 witness: activate, two stores, then an update of the second memory
C7_Witness ==
    /\ calls = 4 /\ last.op = "update" /\ last.err = OK
    /\ LET mems == Memories(fs, last.store)
       IN  /\ Len(mems) = 2
           /\ mems[2].id = last.memory_id
           /\ mems[2].content = "" /\ mems[2].updated_at # None
           /\ mems[1].content = "c1" /\ mems[1].updated_at = None

\* C8: a successful delete_memory(id) removes exactly one memory, so that
\* the length of the list decreases by exactly one and no memory has the id
\* any more; every get_memory(id), update_memory(id, _) and
\* delete_memory(id) made later on an activated instance fails with
\* memory_not_found.
C8_DeleteRemovesOne ==
    [][ /\ (IsCall /\ last'.op = "delete" /\ last'.err = OK)
           => LET old == Memories(fs, last'.store)
                  new == Memories(fs', last'.store)
              IN  /\ Len(new) = Len(old) - 1
                  /\ \A j \in 1..Len(new) : new[j].id # last'.memory_id
                  /\ \E i \in 1..Len(old) :
                        /\ old[i].id = last'.memory_id
                        /\ new = SubSeq(old, 1, i - 1)
                                 \o SubSeq(old, i + 1, Len(old))
        /\ (/\ IsCall /\ last'.op \in {"get", "update", "delete"}
            /\ last'.store \in activated
            /\ last'.memory_id \in deleted)
           => /\ last'.err = MemoryNotFoundError
              /\ fs' = fs ]_vars

\* C8 witness: a get of an id whose delete has succeeded
C8_Witness ==
    /\ last.op = "get" /\ last.store \in activated
    /\ last.memory_id \in deleted
    /\ last.err = MemoryNotFoundError

\* the positions of the memories a list with the filter retains
Matching(mems, filter) ==
    {i \in 1..Len(mems) : filter = None \/ mems[i].type = filter}

\* the number n of the uuid4() call that generated the id
IdNum(id) == CHOOSE n \in 1..uuidCtr : Uuid(n) = id

\* C9: list_memories(filter) on an activated instance returns exactly the
\* memories of the collection whose type equals the filter (all of them
\* without a filter), each as id, title and type and nothing else, in the
\* order of the file, which is the order in which they were created.
C9_ListExact ==
    (last.op = "list" /\ last.store \in activated)
    => LET mems == Memories(fs, last.store)
           idx == Matching(mems, last.type)
           ret == last.ret_list
       IN  /\ last.err = OK
           /\ Len(ret) = Cardinality(idx)
           /\ \A k \in 1..Len(ret) :
                 LET i == CHOOSE i \in idx :
                             Cardinality({j \in idx : j <= i}) = k
                 IN  ret[k] = [id |-> mems[i].id, title |-> mems[i].title,
                               type |-> mems[i].type]
           /\ \A k, l \in 1..Len(ret) :
                 k < l => IdNum(ret[k].id) < IdNum(ret[l].id)

\* C9 witness: a list filtered by "guidelines" of a collection whose first
\* memory is a design_doc and whose second is a guidelines
C9_Witness ==
    /\ last.op = "list" /\ last.err = OK /\ last.type = "guidelines"
    /\ LET mems == Memories(fs, last.store)
       IN  /\ Len(mems) = 2
           /\ mems[1].type = "design_doc"
           /\ mems[2].type = "guidelines"
    /\ Len(last.ret_list) = 1

\* C10: on an activated instance, list_memories with a filter that no
\* memory matches, be it a type of the set or not, returns the empty list
\* without an error; no list_memories changes the file system.
C10_ListNoMatchEmpty ==
    [][ /\ (/\ IsCall /\ last'.op = "list" /\ last'.store \in activated
            /\ last'.type # None
            /\ \A i \in 1..Len(Memories(fs, last'.store)) :
                  Memories(fs, last'.store)[i].type # last'.type)
           => /\ last'.err = OK
              /\ last'.ret_list = << >>
        /\ (IsCall /\ last'.op = "list") => fs' = fs ]_vars

\* C10 witness: a list filtered by "rules", outside the set, of a collection
\* of one memory
C10_Witness ==
    /\ last.op = "list" /\ last.type = "rules"
    /\ last.err = OK /\ last.ret_list = << >>
    /\ Len(Memories(fs, last.store)) = 1

\* two dicts of a memories list that have the same title and the same type
SameTitleAndType(m1, m2) == m1.title = m2.title /\ m1.type = m2.type

\* C11: memories with the same title and the same type are independent of
\* each other.  A store_memory whose title and type a stored memory already
\* has succeeds, appends a memory and returns an id no stored memory has.
\* Of two stored memories with the same title and type, get_memory with the
\* id of one returns that one with its own content, list_memories without
\* a filter or with their type returns both, and delete_memory of one
\* leaves the other in the file as it was.
C11_DuplicatesIndependent ==
    [][ IsCall =>
        LET old == Memories(fs, last'.store)
            new == Memories(fs', last'.store)
        IN  /\ (/\ last'.op = "store" /\ last'.store \in activated
                /\ ValidTitle(last'.title)
                /\ last'.type \in ALLOWED_MEMORY_TYPES
                /\ last'.content # None
                /\ \E i \in 1..Len(old) :
                      /\ old[i].title = last'.title
                      /\ old[i].type = last'.type)
               => /\ last'.err = OK
                  /\ \A i \in 1..Len(old) : old[i].id # last'.ret_id
                  /\ Len(new) = Len(old) + 1
                  /\ SubSeq(new, 1, Len(old)) = old
                  /\ new[Len(new)].id = last'.ret_id
                  /\ new[Len(new)].title = last'.title
                  /\ new[Len(new)].type = last'.type
                  /\ new[Len(new)].content = last'.content
            /\ \A i, j \in 1..Len(old) :
                  (/\ i # j /\ SameTitleAndType(old[i], old[j])
                   /\ last'.store \in activated)
                  => /\ old[i].id # old[j].id
                     /\ (last'.op = "get" /\ last'.memory_id = old[i].id)
                        => /\ last'.err = OK
                           /\ last'.ret_memory = from_dict(old[i])
                     /\ (/\ last'.op = "list"
                         /\ last'.type \in {None, old[i].type})
                        => /\ last'.err = OK
                           /\ \E k \in 1..Len(last'.ret_list) :
                                 last'.ret_list[k].id = old[i].id
                     /\ (last'.op = "delete" /\ last'.memory_id = old[i].id)
                        => /\ last'.err = OK
                           /\ \E k \in 1..Len(new) : new[k] = old[j]
                           /\ \A k \in 1..Len(new) : new[k].id # old[i].id
      ]_vars

\* after two store_memory with the same title and type and different
\* contents, get_memory with the second id has returned the second content
C11_Witness ==
    /\ last.op = "get" /\ last.err = OK
    /\ LET mems == Memories(fs, last.store)
       IN  /\ Len(mems) = 2
           /\ SameTitleAndType(mems[1], mems[2])
           /\ mems[1].content # mems[2].content
           /\ last.memory_id = mems[2].id
           /\ last.ret_memory.content = mems[2].content

\* C12: every activate_project that succeeds on a directory on which an
\* activate_project has succeeded before, whichever the instance and
\* whatever was called in between, returns the project id the first one
\* returned, and that id is the text of the identity file.
C12_ActivateSameId ==
    [][ (/\ IsCall /\ last'.op = "activate" /\ last'.err = OK
         /\ first_id[store[last'.store].working_dir] # None)
        => /\ last'.ret_id = first_id[store[last'.store].working_dir]
           /\ last'.ret_id =
                 fs'[store[last'.store].working_dir].project_id_file.text
           /\ store'[last'.store].project_id = last'.ret_id
      ]_vars

\* the second instance has activated a directory the first one activated
\* and stored a memory in, and got the first project id
C12_Witness ==
    /\ last.op = "activate" /\ last.err = OK /\ last.store = "s2"
    /\ activated = Stores
    /\ Len(Memories(fs, "s2")) > 0
    /\ first_id["A"] = Uuid(1)
    /\ last.ret_id = Uuid(1)

\* the elements of a sequence
Range(seq) == {seq[i] : i \in 1..Len(seq)}

\* C13: an activate_project that succeeds on a directory without .infinity
\* leaves .infinity created, project_id holding the returned id and
\* memories.json holding that id and an empty list of memories; a
\* list_memories of the instance right after it returns the empty list,
\* whatever the filter.
C13_FreshActivation ==
    [][ /\ (/\ IsCall /\ last'.op = "activate" /\ last'.err = OK
            /\ ~fs[store[last'.store].working_dir].infinity_dir)
           => LET d == fs'[store[last'.store].working_dir]
              IN  /\ d.infinity_dir
                  /\ d.project_id_file = [exists |-> TRUE, text |-> last'.ret_id]
                  /\ last'.ret_id # None /\ last'.ret_id # ""
                  /\ d.memories_file =
                        JsonFile([project_id |-> last'.ret_id,
                                  memories |-> << >>], TRUE)
        /\ (/\ IsCall /\ last.op = "activate" /\ last.err = OK
            /\ "mkdir:.infinity" \in Range(last.io)
            /\ last'.op = "list" /\ last'.store = last.store)
           => /\ last'.err = OK
              /\ last'.ret_list = << >>
      ]_vars

\* list_memories has returned the empty list right after the activation
\* that created .infinity
C13_Witness ==
    /\ calls = 2 /\ last.op = "list" /\ last.err = OK /\ last.ret_list = << >>
    /\ last.store \in activated
    /\ fs["A"].memories_file = JsonFile([project_id |-> Uuid(1),
                                         memories |-> << >>], TRUE)

\* C14: a call whose file access fails at any step, which leaves the files
\* as a crash of the process at that step does (no except clause touches a
\* file), never leaves memories.json truncated or mixed: after every call
\* memories.json is what it was before the call, or the call has succeeded
\* and memories.json is a complete file; a call that fails while opening
\* memories.tmp, writing it or replacing memories.json with it leaves
\* memories.json as it was.
C14_CollectionFileOldOrNew ==
    [][ IsCall =>
        LET old == fs[store[last'.store].working_dir].memories_file
            new == fs'[store[last'.store].working_dir].memories_file
        IN  /\ new = old \/ (last'.err = OK /\ new.exists /\ new.complete)
            /\ new.exists => new.complete
            /\ last'.err # OK => new = old
            /\ (/\ last'.op \in {"store", "update", "delete"}
                /\ last'.err = OK)
               => "replace:memories.json" \in Range(last'.io)
      ]_vars

\* a store_memory has failed while writing memories.tmp, and memories.json
\* holds the one memory stored before it
C14_Witness ==
    /\ last.op = "store" /\ last.err = StorageError
    /\ "write:memories.tmp" \in Range(last.io)
    /\ "replace:memories.json" \notin Range(last.io)
    /\ fs["A"].tmp_file.exists /\ ~fs["A"].tmp_file.complete
    /\ fs["A"].memories_file.exists /\ fs["A"].memories_file.complete
    /\ Len(fs["A"].memories_file.data.memories) = 1
    /\ Len(fs["A"].tmp_file.data.memories) = 2

\* C15: every store_memory, update_memory or delete_memory either succeeds
\* or ends with one of the error codes and leaves every file of .infinity
\* (project_id, memories.json, memories.tmp) as it was before the call.
C15_FailureLeavesDirectory ==
    [][ (IsCall /\ last'.op \in {"store", "update", "delete"})
        => \/ last'.err = OK
           \/ /\ last'.err \in MemoryErrorCodes
              /\ fs'[store[last'.store].working_dir]
                   = fs[store[last'.store].working_dir]
      ]_vars

\* the error codes the specification lists for each tool
ListedCodes(op) ==
    CASE op = "activate" -> {StorageError}
      [] op = "store" -> {InvalidMemoryTypeError, MissingRequiredFieldError,
                          ProjectNotActivatedError, StorageError}
      [] op \in {"get", "update", "delete"} ->
            {MemoryNotFoundError, ProjectNotActivatedError, StorageError}
      [] op = "list" -> {ProjectNotActivatedError, StorageError}

IdsIn(f, dir) == {m.id : m \in Range(f[dir].memories_file.data.memories)}

\* C17: with the two instances constructed on two working directories, no
\* call on the instance of one directory changes a file of the other; on
\* an activated instance get_memory of an id its own memories.json does not
\* hold fails with memory_not_found after the same two file accesses,
\* whether the other directory holds the id or not; and list_memories
\* returns no memory of the other directory.
C17_ProjectsIsolated ==
    [][ IsCall =>
        LET mine == WorkingDirOf(last'.store)
            other == CHOOSE dir \in Dirs : dir # mine
        IN  /\ fs'[other] = fs[other]
            /\ (/\ last'.op = "get" /\ last'.store \in activated
                /\ last'.memory_id \notin IdsIn(fs, mine))
               => /\ last'.err = MemoryNotFoundError
                  /\ last'.ret_memory = NoMemory
                  /\ last'.io = <<"exists:memories.json", "read:memories.json">>
                  /\ last'.tool = [success |-> FALSE,
                                   error |-> MemoryNotFoundError]
            /\ last'.op = "list"
               => \A k \in 1..Len(last'.ret_list) :
                     /\ last'.ret_list[k].id \in IdsIn(fs, mine)
                     /\ last'.ret_list[k].id \notin IdsIn(fs, other)
      ]_vars

\* the activated instance of B has been asked for the id of a memory of A
\* and has failed with memory_not_found
C17_Witness ==
    /\ last.op = "get" /\ last.store = "s2" /\ "s2" \in activated
    /\ store["s2"].working_dir = "B"
    /\ last.memory_id \in IdsIn(fs, "A")
    /\ last.err = MemoryNotFoundError

\* C18: in every reachable state the ids of the memories of memories.json
\* are pairwise different, and none of them is the project id.
C18_UniqueIds ==
    \A dir \in Dirs :
        LET mems == fs[dir].memories_file.data.memories
        IN  /\ \A i, j \in 1..Len(mems) : mems[i].id = mems[j].id => i = j
            /\ \A i \in 1..Len(mems) :
                  /\ mems[i].id \in {Uuid(n) : n \in 1..uuidCtr}
                  /\ mems[i].id # fs[dir].memories_file.data.project_id

\* two memories are stored, one of them updated
C18_Witness ==
    /\ Len(fs["A"].memories_file.data.memories) = 2
    /\ updated # {}
    /\ fs["A"].memories_file.data.memories[1].id
         # fs["A"].memories_file.data.memories[2].id

\* the clock value a timestamp was formatted from, the clock being at most
\* max
ClockValue(ts, max) == CHOOSE n \in 0..max : get_iso_timestamp(n) = ts

\* C19: with the clock never going back, after every call every memory of
\* memories.json has the created_at it had before the call (the clock
\* value its store_memory read when it is new), has updated_at None
\* exactly when no update_memory of its id has returned, and else has an
\* updated_at that is not earlier than its created_at nor than the
\* updated_at it had before; a successful update_memory sets updated_at to
\* the clock value it read.
C19_Timestamps ==
    [][ IsCall =>
        LET old == Memories(fs, last'.store)
            new == Memories(fs', last'.store)
        IN  /\ now' >= now
            /\ \A j \in 1..Len(new) :
                  /\ new[j].created_at \in {get_iso_timestamp(n) : n \in 0..now'}
                  /\ new[j].updated_at = None <=> new[j].id \notin updated'
                  /\ new[j].updated_at # None
                     => ClockValue(new[j].updated_at, now')
                          >= ClockValue(new[j].created_at, now')
                  /\ \A i \in 1..Len(old) :
                        old[i].id = new[j].id
                        => /\ new[j].created_at = old[i].created_at
                           /\ old[i].updated_at # None
                              => /\ new[j].updated_at # None
                                 /\ ClockValue(new[j].updated_at, now')
                                      >= ClockValue(old[i].updated_at, now')
                  /\ (\A i \in 1..Len(old) : old[i].id # new[j].id)
                     => /\ last'.op = "store"
                        /\ new[j].created_at = get_iso_timestamp(now')
                  /\ (/\ last'.op = "update" /\ last'.err = OK
                      /\ new[j].id = last'.memory_id)
                     => new[j].updated_at = get_iso_timestamp(now')
      ]_vars

\* of two memories one has been updated after the clock advanced and the
\* other has never been updated
C19_Witness ==
    LET mems == Memories(fs, "s1")
    IN  /\ Len(mems) = 2
        /\ \E i, j \in 1..2 :
              /\ mems[i].updated_at = None
              /\ mems[j].updated_at # None
              /\ mems[j].updated_at # mems[j].created_at
              /\ mems[j].id \in updated

\* C20: in every reachable state every memory of memories.json has a
\* content, possibly the empty string, and never None.
C20_ContentPresent ==
    \A dir \in Dirs :
        \A m \in Range(fs[dir].memories_file.data.memories) : m.content # None

\* C21: when the steps of the calls of two processes interleave, the write
\* of a call replaces memories.json by the dict the call read and changed,
\* whatever another process wrote in between, and the call returns success:
\* of two calls that read the same memories.json the change of the first
\* writer is lost (C21_Witness is such a state).
C21_LastWriterWins ==
    [][ \A s \in Stores :
          (pending[s].op \in {"store", "update", "delete"}
              /\ pending'[s] = NoPending)
          => /\ last'.err = OK /\ last'.store = s
             /\ last'.tool.success
             /\ fs'[store[s].working_dir].memories_file
                  = JsonFile(pending[s].data, TRUE)
      ]_vars

\* two store_memory of two processes have both returned an id, nothing was
\* deleted, and memories.json holds the memory of one of them only
C21_Witness ==
    /\ Cardinality(created) = 2 /\ deleted = {}
    /\ Running = {}
    /\ last.op = "store" /\ last.err = OK
    /\ Len(fs["A"].memories_file.data.memories) = 1
    /\ fs["A"].memories_file.data.memories[1].id = last.ret_id
    /\ \E id \in created :
          \A i \in 1..Len(fs["A"].memories_file.data.memories) :
             fs["A"].memories_file.data.memories[i].id # id

\* C22: when every call runs from its read to its write before the next
\* call starts, no store_memory is lost: in every reachable state
\* memories.json holds exactly one memory for each id a store_memory has
\* returned and no delete_memory has removed, so after n store_memory and
\* no delete_memory it holds n memories.
C22_NoLostAppend ==
    LET mems == fs["A"].memories_file.data.memories
    IN  /\ {mems[i].id : i \in 1..Len(mems)} = created \ deleted
        /\ Len(mems) = Cardinality(created \ deleted)
        /\ Running = {}

\* three store_memory have returned and memories.json holds the three
\* memories
C22_Witness ==
    /\ Cardinality(created) = 3 /\ deleted = {}
    /\ Len(fs["A"].memories_file.data.memories) = 3
    /\ last.op = "store" /\ last.err = OK

\* C23: after an activate_project that failed with storage_error, the
\* instance is not activated: its project_id is None, and the
\* store_memory, get_memory, list_memories, update_memory or delete_memory
\* called next on it fails with project_not_activated and changes no file.
C23_FailedActivateNotActivated ==
    [][ IsCall =>
        /\ (last'.op = "activate" /\ last'.err # OK)
           => /\ last'.err = StorageError
              /\ store'[last'.store].project_id = None
        /\ (/\ last.op = "activate" /\ last.err # OK
            /\ last'.store = last.store /\ last'.op \in RecordOps)
           => /\ last'.err = ProjectNotActivatedError
              /\ fs' = fs
      ]_vars

C25_UnknownIdChangesNothing ==
    [][ (/\ IsCall /\ last'.op \in {"update", "delete"}
         /\ last'.store \in activated
         /\ \A m \in Range(Memories(fs, last'.store)) : m.id # last'.memory_id)
        => /\ last'.err = MemoryNotFoundError
           /\ last'.tool = [success |-> FALSE, error |-> MemoryNotFoundError]
           /\ fs' = fs
           /\ last'.io = <<"exists:memories.json", "read:memories.json">>
           /\ updated' = updated /\ deleted' = deleted
      ]_vars

\* update_memory with an unknown id has failed while a memory that was
\* never updated is stored
C25_Witness ==
    /\ last.op = "update" /\ last.err = MemoryNotFoundError
    /\ last.memory_id = "invalid-uuid" /\ last.content = "c1"
    /\ Len(Memories(fs, last.store)) = 1
    /\ Memories(fs, last.store)[1].updated_at = None
    /\ Memories(fs, last.store)[1].content = ""

\* C26: a successful delete_memory leaves every memory with another id in
\* memories.json with all its fields as they were, adds none, and keeps
\* the memories it leaves in the order they had.
C26_DeleteFrame ==
    [][ (IsCall /\ last'.op = "delete" /\ last'.err = OK)
        => LET old == Memories(fs, last'.store)
               new == Memories(fs', last'.store)
               others == {i \in 1..Len(old) : old[i].id # last'.memory_id}
           IN  /\ Len(new) = Cardinality(others)
               /\ \A k \in 1..Len(new) : \E i \in others : new[k] = old[i]
               /\ \A i \in others : \E k \in 1..Len(new) : new[k] = old[i]
               /\ \A i, j \in others :
                     i < j => \E k, l \in 1..Len(new) :
                                 /\ k < l
                                 /\ new[k] = old[i]
                                 /\ new[l] = old[j]
               /\ fs'[store[last'.store].working_dir].memories_file.data.project_id
                    = fs[store[last'.store].working_dir].memories_file.data.project_id
      ]_vars

\* of three stored memories the second has been deleted, and the first and
\* the third are left in this order
C26_Witness ==
    /\ last.op = "delete" /\ last.err = OK /\ last.memory_id = Uuid(3)
    /\ Len(Memories(fs, "s1")) = 2
    /\ Memories(fs, "s1")[1].id = Uuid(2)
    /\ Memories(fs, "s1")[2].id = Uuid(4)

\* C27: a successful store_memory leaves memories.json with the memories
\* it had, unchanged and in their order, followed by the new memory, which
\* has the returned id, the given title, type and content, the clock value
\* as created_at and no updated_at; the project_id of the file, when the
\* file was there, and the identity file are as before.
C27_StoreAppends ==
    [][ (IsCall /\ last'.op = "store" /\ last'.err = OK)
        => LET dir == store[last'.store].working_dir
               old == fs[dir].memories_file.data
               new == fs'[dir].memories_file.data
           IN  /\ new.memories =
                     old.memories \o
                     << [id |-> last'.ret_id, title |-> last'.title,
                         type |-> last'.type, content |-> last'.content,
                         created_at |-> get_iso_timestamp(now'),
                         updated_at |-> None] >>
               /\ fs[dir].memories_file.exists => new.project_id = old.project_id
               /\ fs'[dir].project_id_file = fs[dir].project_id_file
               /\ fs'[dir].memories_file.complete
      ]_vars

\* a third memory has been stored behind two, one of which had been
\* updated
C27_Witness ==
    /\ last.op = "store" /\ last.err = OK
    /\ Len(Memories(fs, "s1")) = 3
    /\ Memories(fs, "s1")[3].id = last.ret_id
    /\ Memories(fs, "s1")[1].updated_at # None
    /\ Memories(fs, "s1")[1].id = Uuid(2)

\* C28: every call of activate_project, store_memory, get_memory,
\* list_memories, update_memory and delete_memory returns or fails with
\* one of the error codes of MemoryError, a failure of the reading or the
\* writing of a file being storage_error, and a call that fails leaves
\* memories.json as it was.
C28_OnlyTypedFailures ==
    [][ IsCall =>
        /\ last'.err \in {OK} \cup MemoryErrorCodes
        /\ (last'.err # OK /\ Range(last'.io) # {})
           => last'.err \in {StorageError, MemoryNotFoundError}
        /\ last'.err # OK
           => fs'[store[last'.store].working_dir].memories_file
                = fs[store[last'.store].working_dir].memories_file
      ]_vars

\* C29: the instance of the tools belongs to the working directory of the
\* process: a tool call made in the directory of the call before it uses
\* the same instance, and every tool call uses an instance of the working
\* directory the process has when the call is made and changes no file of
\* another directory.
C29_StorageFollowsCwd ==
    [][ IsCall =>
        /\ store'["s1"].working_dir = cwd
        /\ \A dir \in Dirs \ {cwd} : fs'[dir] = fs[dir]
        /\ (store["s1"] # NoStorage /\ store["s1"].working_dir = cwd)
           => store'["s1"].working_dir = store["s1"].working_dir
      ]_vars

\* C30: once the identity file of a directory exists, no call changes it:
\* after every activate_project and every record operation, successful or
\* failed, the file exists with the text it had before the call.
C30_IdentityFileWrittenOnce ==
    [][ \A dir \in Dirs :
          fs[dir].project_id_file.exists
          => fs'[dir].project_id_file = fs[dir].project_id_file
      ]_vars

\* the identity file holds the id of the first activation after both
\* instances have activated the directory, a memory was stored and deleted
C30_Witness ==
    /\ fs["A"].project_id_file = [exists |-> TRUE, text |-> Uuid(1)]
    /\ first_id["A"] = Uuid(1)
    /\ activated = Stores
    /\ deleted # {}
    /\ calls = 4

\* C31: while the open, write and rename steps of the calls of two
\* processes interleave, memories.json, when it exists, holds one complete
\* serialized collection, and no store_memory, update_memory or
\* delete_memory fails with storage_error at its rename.
C31_BackingFileComplete ==
    /\ \A dir \in Dirs :
          fs[dir].memories_file.exists => fs[dir].memories_file.complete
    /\ ~(last.op \in {"store", "update", "delete"} /\ last.err = StorageError)

\* C32: an activate_project on a directory whose memories.json exists, by
\* the instance that wrote it or by another, leaves memories.json as it
\* was: when it succeeds, get_memory of every id and list_memories return
\* from the directory after it what they return from the directory before
\* it, a memory for each dict of the file.
C32_ActivateKeepsCollection ==
    [][ \A dir \in Dirs :
          (/\ IsCall /\ last'.op = "activate"
           /\ store'[last'.store].working_dir = dir
           /\ fs[dir].memories_file.exists)
          => /\ fs'[dir].memories_file = fs[dir].memories_file
             /\ last'.err = OK
                => LET self == store'[last'.store]
                       before == ListMemoriesOp(self, fs[dir], None, "none")
                       after == ListMemoriesOp(self, fs'[dir], None, "none")
                   IN  /\ after.err = OK
                       /\ after.ret_list = before.ret_list
                       /\ Len(after.ret_list)
                            = Len(fs[dir].memories_file.data.memories)
                       /\ \A memory_id \in MemoryIds :
                             GetMemoryOp(self, fs'[dir], memory_id, "none")
                               = [GetMemoryOp(self, fs[dir], memory_id, "none")
                                     EXCEPT !.dir = fs'[dir]]
      ]_vars

\* the second instance has just activated a directory in which the first
\* one had stored a memory, and the memory is in memories.json
C32_Witness ==
    /\ last.op = "activate" /\ last.err = OK /\ last.store = "s2"
    /\ activated = Stores
    /\ created # {} /\ deleted = {}
    /\ Len(fs["A"].memories_file.data.memories) = 1

\* a project id as uuid.uuid4() makes them
WellFormedId(id) == \E n \in 1..MaxCalls + 1 : id = Uuid(n)

\* C33: after a process died inside activate_project, wherever it was,
\* every activate_project on the directory succeeds and returns a
\* non-empty, well-formed project id, the text of the identity file;
\* memories.json then exists, complete and with that project_id when the
\* call created it, and every later activate_project returns the same id.
C33_ActivateAfterCrash ==
    [][ (IsCall /\ last'.op = "activate")
        => LET dir == store'[last'.store].working_dir
           IN  /\ last'.err = OK
               /\ WellFormedId(last'.ret_id)
               /\ fs'[dir].project_id_file = [exists |-> TRUE, text |-> last'.ret_id]
               /\ fs'[dir].memories_file.exists
               /\ fs'[dir].memories_file.complete
               /\ ~fs[dir].memories_file.exists
                  => fs'[dir].memories_file.data
                       = [project_id |-> last'.ret_id, memories |-> << >>]
               /\ first_id[dir] # None => last'.ret_id = first_id[dir]
      ]_vars

\* C34: in every reachable state, for every instance whose
\* activate_project has succeeded, whatever store_memory, update_memory,
\* delete_memory and activate_project were called since: the identity file
\* exists and its text is the project_id of the instance, and memories.json
\* exists, is complete and has that project_id.
C34_ProjectIdAgrees ==
    \A s \in activated :
        LET d == fs[store[s].working_dir]
        IN  /\ store[s].project_id # None
            /\ d.project_id_file = [exists |-> TRUE, text |-> store[s].project_id]
            /\ d.memories_file.exists /\ d.memories_file.complete
            /\ d.memories_file.data.project_id = store[s].project_id

====
